---- MODULE Spec2Model ----
(***************************************************************************)
(* Model of src/train.py: check_params, build_learner and train_worker.    *)
(*                                                                         *)
(* Strings are sequences of tokens.  A token is one character where the    *)
(* code looks at characters (the restore filename, the key paths handed    *)
(* to check_params by the generic specification) and one word where the    *)
(* code only splits on '.' (the schema's key paths).                       *)
(***************************************************************************)
EXTENDS Integers, Sequences, FiniteSets, TLC

VARIABLES
    params,      \* the configuration mapping
    param_list,  \* check_params: the list of dotted key paths it was given
    cpResult,    \* check_params: how the call ended
    comm_file,   \* train_worker argument (None or a path)
    restoreArg,  \* train_worker argument `restore` (None or a filename)
    cuda,        \* torch.cuda.is_available()
    nprocs,      \* number of worker processes the launcher started
    environ,     \* os.environ of each worker process
    pc,          \* each worker's position in train_worker
    loc,         \* each worker's local variables
    calls,       \* each worker's framework calls, in order
    stdout,      \* the lines printed, in order, over all workers
    result       \* how each worker's train_worker call ended

vars == <<params, param_list, cpResult, comm_file, restoreArg, cuda, nprocs,
          environ, pc, loc, calls, stdout, result>>

workerVars == <<comm_file, restoreArg, cuda, nprocs, environ, pc, loc, calls,
                stdout, result>>

-----------------------------------------------------------------------------
(* Bounds.                                                                 *)

MaxPathLen == 3   \* characters of a key path given to check_params
MaxList == 2      \* key paths in a param_list
MaxGpus == 2      \* entries of gpu_ids, hence worker processes
MaxStem == 4      \* characters of a restore filename before its extensions
MaxEpochs == 2    \* values of optim.epochs

-----------------------------------------------------------------------------
(* Python values.                                                          *)

NoneV == [isNone |-> TRUE, s |-> <<>>, n |-> 0]
SomeStr(s) == [isNone |-> FALSE, s |-> s, n |-> 0]
SomeInt(n) == [isNone |-> FALSE, s |-> <<>>, n |-> n]

NoItems == [k \in {} |-> 0]

DictV(items) ==
    [kind |-> "dict", items |-> items, elems |-> <<>>, num |-> 0, str |-> <<>>]
ListV(elems) ==
    [kind |-> "list", items |-> NoItems, elems |-> elems, num |-> 0, str |-> <<>>]
IntV(n) ==
    [kind |-> "int", items |-> NoItems, elems |-> <<>>, num |-> n, str |-> <<>>]
StrV(s) ==
    [kind |-> "str", items |-> NoItems, elems |-> <<>>, num |-> 0, str |-> s]
NoneNode ==
    [kind |-> "none", items |-> NoItems, elems |-> <<>>, num |-> 0, str |-> <<>>]

\* val[key] for a string key: a dict raises KeyError on a missing key, every
\* other value (list, int, str, None) raises TypeError.
GetItem(val, key) ==
    IF val.kind = "dict"
    THEN IF key \in DOMAIN val.items
         THEN [exc |-> "none", val |-> val.items[key]]
         ELSE [exc |-> "KeyError", val |-> val]
    ELSE [exc |-> "TypeError", val |-> val]

\* The positions of token sep in s.
Positions(s, sep) == {i \in 1..Len(s) : s[i] = sep}

Min(S) == CHOOSE m \in S : \A o \in S : m <= o
Max(S) == CHOOSE m \in S : \A o \in S : m >= o

\* str.split(sep) for a one-token separator: always at least one piece.
RECURSIVE Split(_, _)
Split(s, sep) ==
    IF Positions(s, sep) = {}
    THEN <<s>>
    ELSE LET i == Min(Positions(s, sep))
         IN  <<SubSeq(s, 1, i - 1)>> \o Split(SubSeq(s, i + 1, Len(s)), sep)

-----------------------------------------------------------------------------
(* check_params                                                            *)

\* Variant: the handler names KeyError alone.
CaughtByCheck_KeyErrorOnly == {"KeyError"}

\* The exceptions check_params catches around the descent.
CaughtByCheck == {"KeyError", "TypeError"}

\* for key in param.split('.'): val = val[key]
RECURSIVE Descend(_, _, _)
Descend(val, keys, i) ==
    IF i > Len(keys)
    THEN "none"
    ELSE LET r == GetItem(val, keys[i])
         IN  IF r.exc = "none" THEN Descend(r.val, keys, i + 1) ELSE r.exc

\* f'Expected parameter "{param}" not supplied.'
ExpectedMsg(param) == <<"Expected parameter \"">> \o param \o <<"\" not supplied.">>

NoExc == [exc |-> "none", msg |-> <<>>]
Raise(exc, msg) == [exc |-> exc, msg |-> msg]

\* The loop of check_params from position i of plist.
RECURSIVE CheckFrom(_, _, _)
CheckFrom(p, plist, i) ==
    IF i > Len(plist)
    THEN NoExc
    ELSE LET e == Descend(p, Split(plist[i], "."), 1)
         IN  IF e = "none"
             THEN CheckFrom(p, plist, i + 1)
             ELSE IF e \in CaughtByCheck
                  THEN Raise("ValueError", ExpectedMsg(plist[i]))
                  ELSE Raise(e, <<>>)

check_params(p, plist) == CheckFrom(p, plist, 1)

-----------------------------------------------------------------------------
(* The generic inputs of check_params: small mappings and key paths.       *)

PathChars == {"a", "."}
CPKeys == {<<"a">>, <<>>}

RECURSIVE SeqsUpTo(_, _)
SeqsUpTo(S, n) ==
    IF n = 0
    THEN {<<>>}
    ELSE LET shorter == SeqsUpTo(S, n - 1)
         IN  shorter \cup {Append(s, c) : s \in shorter, c \in S}

PathStrings == SeqsUpTo(PathChars, MaxPathLen)
ParamLists == SeqsUpTo(PathStrings, MaxList)

DictsOver(keys, values) ==
    UNION {{DictV(f) : f \in [ks -> values]} : ks \in SUBSET keys}

Leaves == {NoneNode}
Level1 == DictsOver(CPKeys, Leaves) \cup Leaves
SmallMappings == DictsOver(CPKeys, Level1)

-----------------------------------------------------------------------------
(* The configuration schema and the inputs of train_worker.               *)

Key(word) == <<word>>
Dotted(section, name) == <<section, ".", name>>

\* A dict from a sequence of <<key word, value>> pairs.
MkDict(pairs) ==
    DictV([k \in {Key(pairs[i][1]) : i \in DOMAIN pairs} |->
              pairs[CHOOSE i \in DOMAIN pairs : Key(pairs[i][1]) = k][2]])

\* The key paths build_learner checks before it constructs the data loader.
DataParams ==
    << Dotted("data", "batch_size"), Dotted("data", "dir"),
       Dotted("data", "epoch_size"), Dotted("data", "max_length"),
       Dotted("data", "max_test_size"), Dotted("data", "max_val_size"),
       Dotted("data", "src"), Dotted("data", "tgt") >>

\* The key paths build_learner checks before it constructs the network.
NetworkParams ==
    << Dotted("decoder", "embedding_dim"), Dotted("decoder", "embedding_dropout"),
       Dotted("decoder", "prediction_dropout"), Dotted("encoder", "embedding_dim"),
       Dotted("encoder", "embedding_dropout"), Dotted("network", "bias"),
       Dotted("network", "block_sizes"), Dotted("network", "division_factor"),
       Dotted("network", "dropout"), Dotted("network", "efficient"),
       Dotted("network", "growth_rate") >>

\* The key paths train_worker checks before it calls fit_one_cycle.
OptimParams == << Dotted("optim", "epochs"), Dotted("optim", "lr") >>

\* The keys build_learner reads with a plain subscript.
TopLevelParams == << Key("model_name"), Key("gpu_ids") >>

Range(f) == {f[i] : i \in DOMAIN f}

SchemaPaths ==
    Range(TopLevelParams) \cup Range(DataParams) \cup Range(NetworkParams)
        \cup Range(OptimParams)

Sections == {"data", "encoder", "decoder", "network", "optim"}

\* A complete configuration with the given gpu_ids and optim.epochs.
FullConfig(gpus, epochs) ==
    MkDict(<<
        <<"model_name", StrV(<<"nmt">>)>>,
        <<"gpu_ids", ListV(gpus)>>,
        <<"data", MkDict(<<
            <<"batch_size", IntV(64)>>, <<"dir", StrV(<<"corpus">>)>>,
            <<"epoch_size", IntV(1000)>>, <<"max_length", IntV(50)>>,
            <<"max_test_size", IntV(100)>>, <<"max_val_size", IntV(100)>>,
            <<"src", StrV(<<"de">>)>>, <<"tgt", StrV(<<"en">>)>> >>)>>,
        <<"encoder", MkDict(<<
            <<"embedding_dim", IntV(128)>>, <<"embedding_dropout", IntV(0)>> >>)>>,
        <<"decoder", MkDict(<<
            <<"embedding_dim", IntV(128)>>, <<"embedding_dropout", IntV(0)>>,
            <<"prediction_dropout", IntV(0)>> >>)>>,
        <<"network", MkDict(<<
            <<"bias", IntV(1)>>, <<"block_sizes", ListV(<<24>>)>>,
            <<"division_factor", IntV(2)>>, <<"dropout", IntV(0)>>,
            <<"efficient", IntV(1)>>, <<"growth_rate", IntV(32)>> >>)>>,
        <<"optim", MkDict(<<
            <<"epochs", IntV(epochs)>>, <<"lr", IntV(1)>> >>)>> >>)

\* node without the entry that the key sequence keys leads to.
RECURSIVE Without(_, _)
Without(node, keys) ==
    IF node.kind # "dict" \/ keys = <<>> \/ keys[1] \notin DOMAIN node.items
    THEN node
    ELSE IF Len(keys) = 1
         THEN DictV([k \in DOMAIN node.items \ {keys[1]} |-> node.items[k]])
         ELSE DictV([node.items EXCEPT ![keys[1]] = Without(@, Tail(keys))])

\* node with a whole section given as an empty entry (None).
WithNoneSection(node, section) ==
    DictV([node.items EXCEPT ![Key(section)] = NoneNode])

\* The configurations tried: complete, one schema key absent, one section None.
ConfigsOf(full) ==
    {full} \cup {Without(full, Split(p, ".")) : p \in SchemaPaths}
           \cup {WithNoneSection(full, s) : s \in Sections}

\* gpu_ids lists: n devices, numbered so that gpu_ids[pindex] # pindex.
GpuList(n) == [i \in 1..n |-> n - i]

\* The launcher starts one worker per GPU, and one worker on the CPU.
WorkersFor(config) ==
    LET g == GetItem(config, Key("gpu_ids"))
    IN  IF g.exc = "none" /\ Len(g.val.elems) > 0 THEN Len(g.val.elems) ELSE 1

Procs == 0..(nprocs - 1)

PROJECT_DIR == <<"proj">>
CommPath == <<"/", "tmp", "/", "comm">>

\* Restore filenames, character by character.
PthExt == <<".", "p", "t", "h">>
ExtLen == 4
StemChars == {"m", "_", "1", "/"}
Tails == {<<>>, PthExt, PthExt \o PthExt, <<"p", "t", "h">>}
RestoreNames == {s \o t : s \in SeqsUpTo(StemChars, MaxStem), t \in Tails}
RestoreSamples ==
    { <<"m", "_", "1">> \o PthExt, <<"m", "_", "1">>, <<"m">> \o PthExt \o PthExt }

EnvNames == {"RANK", "HOME"}
StartEnvs ==
    { [v \in EnvNames |-> IF v = "RANK" THEN r ELSE SomeStr(<<"/", "root">>)] :
        r \in {NoneV, SomeStr(<<>>), SomeStr(<<"7">>)} }

-----------------------------------------------------------------------------
(* Python helpers used by build_learner and train_worker.                  *)

DigitChars == <<"0", "1", "2", "3", "4", "5", "6", "7", "8", "9">>
DigitSet == Range(DigitChars)
DigitVal(c) == (CHOOSE i \in DOMAIN DigitChars : DigitChars[i] = c) - 1

\* str(n) for n >= 0.
RECURSIVE IntStr(_)
IntStr(n) ==
    IF n < 10
    THEN <<DigitChars[n + 1]>>
    ELSE IntStr(n \div 10) \o <<DigitChars[(n % 10) + 1]>>

RECURSIVE DecVal(_)
DecVal(ds) ==
    IF ds = <<>> THEN 0
    ELSE 10 * DecVal(SubSeq(ds, 1, Len(ds) - 1)) + DigitVal(ds[Len(ds)])

RECURSIVE StripWs(_)
StripWs(s) ==
    IF s # <<>> /\ s[1] = " " THEN StripWs(Tail(s))
    ELSE IF s # <<>> /\ s[Len(s)] = " " THEN StripWs(SubSeq(s, 1, Len(s) - 1))
    ELSE s

\* int(s): surrounding blanks, an optional sign, then one or more digits.
ParseInt(s) ==
    LET t == StripWs(s)
        signed == t # <<>> /\ t[1] \in {"+", "-"}
        body == IF signed THEN Tail(t) ELSE t
    IN  IF body = <<>> \/ \E i \in DOMAIN body : body[i] \notin DigitSet
        THEN [ok |-> FALSE, n |-> 0]
        ELSE [ok |-> TRUE,
              n |-> IF signed /\ t[1] = "-" THEN 0 - DecVal(body) ELSE DecVal(body)]

\* s[-n:] and s[:-n]
LastN(s, n) == SubSeq(s, Max({1, Len(s) - n + 1}), Len(s))
DropLastN(s, n) == SubSeq(s, 1, Max({0, Len(s) - n}))

\* os.path.join(a, b)
PathJoin(a, b) ==
    IF b # <<>> /\ b[1] = "/" THEN b
    ELSE IF a = <<>> \/ a[Len(a)] = "/" THEN a \o b
    ELSE a \o <<"/">> \o b

\* f'{x}' for a value that is None or a string.
Fmt(x) == IF x.isNone THEN <<"None">> ELSE x.s

-----------------------------------------------------------------------------
(* build_learner and train_worker, one action per step of a worker.        *)

Call(fn, args) == [fn |-> fn, a |-> args]

Running == [state |-> "running", exc |-> "none", msg |-> <<>>]
Returned == [state |-> "returned", exc |-> "none", msg |-> <<>>]
Raised(exc, msg) == [state |-> "raised", exc |-> exc, msg |-> msg]

\* Worker w moves to position npc with locals nloc after making newCalls.
Step(w, npc, nloc, newCalls) ==
    /\ pc' = [pc EXCEPT ![w] = npc]
    /\ loc' = [loc EXCEPT ![w] = nloc]
    /\ calls' = [calls EXCEPT ![w] = @ \o newCalls]
    /\ result' = result

\* Worker w's train_worker call ends with res after making newCalls.
FinishWith(w, res, nloc, newCalls) ==
    /\ pc' = [pc EXCEPT ![w] = "done"]
    /\ loc' = [loc EXCEPT ![w] = nloc]
    /\ calls' = [calls EXCEPT ![w] = @ \o newCalls]
    /\ result' = [result EXCEPT ![w] = res]

Finish(w, res, newCalls) == FinishWith(w, res, loc[w], newCalls)

\* Variant: an empty RANK counts as set.
NeedsRank_UnsetOnly(env) == env["RANK"].isNone

\* not os.getenv('RANK', None)
NeedsRank(env) == env["RANK"].isNone \/ env["RANK"].s = <<>>

\* if not os.getenv('RANK', None): os.environ['RANK'] = str(pindex)
SetRank(w) ==
    /\ pc[w] = "start"
    /\ environ' = [environ EXCEPT ![w] =
                      IF NeedsRank(@) THEN [@ EXCEPT !["RANK"] = SomeStr(IntStr(w))] ELSE @]
    /\ pc' = [pc EXCEPT ![w] = "device"]
    /\ UNCHANGED <<params, param_list, cpResult, comm_file, restoreArg, cuda,
                   nprocs, loc, calls, stdout, result>>

\* world_size = len(gpu_ids) if len(gpu_ids) > 0 else 1
WorldSize(gpu_ids) == IF Len(gpu_ids) > 0 THEN Len(gpu_ids) ELSE 1

\* distributed = world_size > 1
Distributed(world_size) == world_size > 1

\* device_id = gpu_ids[pindex]
DeviceId(gpu_ids, pindex) == gpu_ids[pindex + 1]

\* Variant: every worker joins as rank 0.
ProcessGroupArgs_RankZero(world_size, pindex, cf) ==
    <<"nccl", world_size, 0, <<"file://">> \o Fmt(cf)>>

\* init_process_group(backend='nccl', world_size=world_size, rank=pindex,
\*                    init_method=f'file://{comm_file}')
ProcessGroupArgs(world_size, pindex, cf) ==
    <<"nccl", world_size, pindex, <<"file://">> \o Fmt(cf)>>

\* build_learner up to the process group: model directory, device, rank.
\* Without CUDA the framework's device queries may raise by themselves.
ConfigureDevice(w) ==
    /\ pc[w] = "device"
    /\ \E torchRaises \in (IF cuda THEN {FALSE} ELSE BOOLEAN) :
        LET mn == GetItem(params, Key("model_name"))
            gp == GetItem(params, Key("gpu_ids"))
            model_dir == PathJoin(PathJoin(PROJECT_DIR, <<"model">>), mn.val.str)
            gpu_ids == gp.val.elems
            world_size == WorldSize(gpu_ids)
            distributed == Distributed(world_size)
            mk == <<Call("makedirs", <<model_dir>>)>>
        IN  IF mn.exc # "none"
            THEN Finish(w, Raised(mn.exc, Key("model_name")), <<>>)
            ELSE IF gp.exc # "none"
            THEN Finish(w, Raised(gp.exc, Key("gpu_ids")), mk)
            ELSE IF Len(gpu_ids) > 0 /\ w >= Len(gpu_ids)
            THEN Finish(w, Raised("IndexError", <<>>), mk)
            ELSE IF Len(gpu_ids) > 0 /\ torchRaises
            THEN Finish(w, Raised("RuntimeError", <<>>),
                        mk \o <<Call("get_device_name", <<DeviceId(gpu_ids, w)>>)>>)
            ELSE LET device_id == IF Len(gpu_ids) > 0
                                  THEN SomeInt(DeviceId(gpu_ids, w)) ELSE NoneV
                     devCalls == IF Len(gpu_ids) > 0
                                 THEN <<Call("get_device_name", <<device_id.n>>),
                                        Call("set_device", <<device_id.n>>)>>
                                 ELSE <<>>
                     pgCalls == IF distributed
                                THEN <<Call("init_process_group",
                                            ProcessGroupArgs(world_size, w, comm_file))>>
                                ELSE <<>>
                 IN  Step(w, "data",
                          [loc[w] EXCEPT !.model_dir = model_dir,
                                         !.model_name = mn.val.str,
                                         !.world_size = world_size,
                                         !.distributed = distributed,
                                         !.device_id = device_id,
                                         !.device = IF device_id.isNone
                                                    THEN <<"cpu">>
                                                    ELSE <<"cuda", device_id.n>>],
                          mk \o devCalls \o pgCalls)
    /\ UNCHANGED <<params, param_list, cpResult, comm_file, restoreArg, cuda,
                   nprocs, environ, stdout>>

\* build_learner: check the data keys, then construct the data loader.
\* The loader reads the corpus files and may fail on them.
LoadData(w) ==
    /\ pc[w] = "data"
    /\ \E filesOk \in BOOLEAN :
        LET chk == check_params(params, DataParams)
            data == GetItem(params, Key("data")).val
            batch_size == GetItem(data, Key("batch_size")).val.num \div loc[w].world_size
            ck == <<Call("check_params", <<"data">>)>>
            ld == <<Call("PervasiveDataLoader",
                         <<batch_size, loc[w].model_name, loc[w].distributed>>)>>
        IN  IF chk.exc # "none"
            THEN Finish(w, Raised(chk.exc, chk.msg), ck)
            ELSE IF ~filesOk
            THEN Finish(w, Raised("FileNotFoundError", <<>>), ck \o ld)
            ELSE Step(w, "model", [loc[w] EXCEPT !.batch_size = batch_size], ck \o ld)
    /\ UNCHANGED <<params, param_list, cpResult, comm_file, restoreArg, cuda,
                   nprocs, environ, stdout>>

\* 'Request to train on GPU {device_id}, but not GPU found.' (no f-string)
GpuNotFoundMsg == <<"Request to train on GPU {device_id}, but not GPU found.">>

\* Variant: availability is not checked.
GpuNotFound_Unchecked(device_id, available) == FALSE

\* if device_id is not None: if not torch.cuda.is_available(): raise
GpuNotFound(device_id, available) == ~device_id.isNone /\ ~available

\* build_learner: check the network keys, construct the network, move it to
\* the device and wrap it in a Learner.
BuildModel(w) ==
    /\ pc[w] = "model"
    /\ LET chk == check_params(params, NetworkParams)
           ck == <<Call("check_params", <<"network">>)>>
           net == <<Call("Pervasive", <<loc[w].model_name>>),
                    Call("init_weights", <<>>)>>
           toGpu == IF loc[w].device_id.isNone THEN <<>>
                    ELSE <<Call("cuda", <<loc[w].device_id.n>>)>>
           wrap == IF ~loc[w].device_id.isNone /\ loc[w].distributed
                   THEN <<Call("DistributedDataParallel", <<loc[w].device_id.n>>)>>
                   ELSE <<>>
           mkLearner == <<Call("DataBunch", <<loc[w].device>>),
                          Call("Learner", <<loc[w].model_dir>>)>>
       IN  IF chk.exc # "none"
           THEN Finish(w, Raised(chk.exc, chk.msg), ck)
           ELSE IF GpuNotFound(loc[w].device_id, cuda)
           THEN Finish(w, Raised("ValueError", GpuNotFoundMsg), ck \o net)
           ELSE Step(w, "restore",
                     [loc[w] EXCEPT !.learn = TRUE, !.ddp = (wrap # <<>>)],
                     ck \o net \o toGpu \o wrap \o mkLearner)
    /\ UNCHANGED <<params, param_list, cpResult, comm_file, restoreArg, cuda,
                   nprocs, environ, stdout>>

\* Variant: every trailing extension is removed.
RECURSIVE StripExt_All(_)
StripExt_All(restore) ==
    IF LastN(restore, ExtLen) = PthExt
    THEN StripExt_All(DropLastN(restore, ExtLen))
    ELSE restore

\* if restore[-4:] == '.pth': restore = restore[:-4]
StripExt(restore) ==
    IF LastN(restore, ExtLen) = PthExt THEN DropLastN(restore, ExtLen) ELSE restore

\* train_worker: strip the extension and call learn.load.  The framework
\* finds the file, does not find it, or fails on its content.
LoadCheckpoint(w) ==
    /\ pc[w] = "restore"
    /\ IF restoreArg.isNone
       THEN Step(w, "callbacks", loc[w], <<>>)
       ELSE \E loaded \in {"ok", "FileNotFoundError", "RuntimeError"} :
              LET name == StripExt(loc[w].restore.s)
                  ld == <<Call("load", <<name, FALSE>>)>>
                  nloc == [loc[w] EXCEPT !.restore = SomeStr(name), !.loaded = loaded]
              IN  IF loaded = "ok" THEN Step(w, "loaded", nloc, ld)
                  ELSE IF loaded = "FileNotFoundError" THEN Step(w, "missing", nloc, ld)
                  ELSE FinishWith(w, Raised(loaded, <<>>), nloc, ld)
    /\ UNCHANGED <<params, param_list, cpResult, comm_file, restoreArg, cuda,
                   nprocs, environ, stdout>>

\* Variant: every worker reports.
PrintsReport_Always(pindex) == TRUE

\* if pindex == 0: print(...)
PrintsReport(pindex) == pindex = 0

\* f'Loaded model {restore}.'
LoadedMsg(restore) == <<"Loaded model ">> \o restore \o <<".">>

\* f'The model file {learn.model_dir}/{restore}.pth was not found!'
NotFoundMsg(model_dir, restore) ==
    <<"The model file ">> \o model_dir \o <<"/">> \o restore \o <<".pth was not found!">>

Emit(w, line) == stdout' = Append(stdout, [by |-> w, line |-> line])

\* After a successful load: worker 0 reports it.
ReportLoaded(w) ==
    /\ pc[w] = "loaded"
    /\ IF PrintsReport(w)
       THEN Emit(w, LoadedMsg(loc[w].restore.s))
       ELSE stdout' = stdout
    /\ Step(w, "epoch", loc[w], <<>>)
    /\ UNCHANGED <<params, param_list, cpResult, comm_file, restoreArg, cuda,
                   nprocs, environ>>

\* Variant: the handler reports and falls through instead of returning.
ReportMissing_FallsThrough(w) ==
    /\ pc[w] = "missing"
    /\ IF PrintsReport(w)
       THEN Emit(w, NotFoundMsg(loc[w].model_dir, loc[w].restore.s))
       ELSE stdout' = stdout
    /\ Step(w, "epoch", loc[w], <<>>)
    /\ UNCHANGED <<params, param_list, cpResult, comm_file, restoreArg, cuda,
                   nprocs, environ>>

\* except FileNotFoundError: worker 0 reports it, every worker returns.
ReportMissing(w) ==
    /\ pc[w] = "missing"
    /\ IF PrintsReport(w)
       THEN Emit(w, NotFoundMsg(loc[w].model_dir, loc[w].restore.s))
       ELSE stdout' = stdout
    /\ Finish(w, Returned, <<>>)
    /\ UNCHANGED <<params, param_list, cpResult, comm_file, restoreArg, cuda,
                   nprocs, environ>>

\* Variant: the fields are taken from the whole path.
EpochOf_WholePath(restore) ==
    LET fields == Split(restore, "_")
    IN  IF Len(fields) > 1 /\ ParseInt(fields[2]).ok
        THEN SomeInt(ParseInt(fields[2]).n + 1)
        ELSE NoneV

\* fields = restore.split('/')[-1].split('_'); epoch = int(fields[1]) + 1
EpochOf(restore) ==
    LET comps == Split(restore, "/")
        fields == Split(comps[Len(comps)], "_")
    IN  IF Len(fields) > 1 /\ ParseInt(fields[2]).ok
        THEN SomeInt(ParseInt(fields[2]).n + 1)
        ELSE NoneV

\* train_worker: derive the start epoch from the restored name.
ParseEpoch(w) ==
    /\ pc[w] = "epoch"
    /\ Step(w, "callbacks", [loc[w] EXCEPT !.epoch = EpochOf(loc[w].restore.s)], <<>>)
    /\ UNCHANGED <<params, param_list, cpResult, comm_file, restoreArg, cuda,
                   nprocs, environ, stdout>>

\* Variant: the callback saves on improvement only.
SaveCallbacks_OnImprovement ==
    <<[cb |-> "SaveModelCallback", every |-> "improvement", name |-> "model"]>>

\* [SaveModelCallback(learn, every='epoch', name='model')]
SaveCallbacks == <<[cb |-> "SaveModelCallback", every |-> "epoch", name |-> "model"]>>

\* learn.callbacks = [...]
InstallCallbacks(w) ==
    /\ pc[w] = "callbacks"
    /\ Step(w, "optim", [loc[w] EXCEPT !.callbacks = SaveCallbacks],
            <<Call("SaveModelCallback", <<"epoch", "model">>)>>)
    /\ UNCHANGED <<params, param_list, cpResult, comm_file, restoreArg, cuda,
                   nprocs, environ, stdout>>

\* check_params(params, ['optim.epochs', 'optim.lr'])
CheckOptim(w) ==
    /\ pc[w] = "optim"
    /\ LET chk == check_params(params, OptimParams)
           ck == <<Call("check_params", <<"optim">>)>>
       IN  IF chk.exc # "none"
           THEN Finish(w, Raised(chk.exc, chk.msg), ck)
           ELSE Step(w, "fit", loc[w], ck)
    /\ UNCHANGED <<params, param_list, cpResult, comm_file, restoreArg, cuda,
                   nprocs, environ, stdout>>

\* fit_one_cycle(epochs, lr, tot_epochs=epochs, start_epoch=epoch)
FitArgs(p, epoch) ==
    LET optim == GetItem(p, Key("optim")).val
    IN  <<GetItem(optim, Key("epochs")).val.num, GetItem(optim, Key("lr")).val.num,
          GetItem(optim, Key("epochs")).val.num, epoch>>

\* train_worker: start training, and return when it ends.
Fit(w) ==
    /\ pc[w] = "fit"
    /\ Finish(w, Returned, <<Call("fit_one_cycle", FitArgs(params, loc[w].epoch))>>)
    /\ UNCHANGED <<params, param_list, cpResult, comm_file, restoreArg, cuda,
                   nprocs, environ, stdout>>

-----------------------------------------------------------------------------
(* Specifications of the workers.                                          *)

InitLoc(env) ==
    [env0 |-> env, loaded |-> "none", restore |-> restoreArg, epoch |-> NoneV, model_dir |-> <<>>,
     model_name |-> <<>>, world_size |-> 0, distributed |-> FALSE,
     device_id |-> NoneV, device |-> <<>>, batch_size |-> 0, learn |-> FALSE,
     ddp |-> FALSE, callbacks |-> <<>>]

NoCheckParamsCall ==
    /\ param_list = <<>>
    /\ cpResult = [called |-> FALSE, exc |-> "none", msg |-> <<>>, before |-> params]

StartWorkers(env) ==
    /\ nprocs = WorkersFor(params)
    /\ environ = [w \in Procs |-> env]
    /\ pc = [w \in Procs |-> "start"]
    /\ loc = [w \in Procs |-> InitLoc(env)]
    /\ calls = [w \in Procs |-> <<>>]
    /\ stdout = <<>>
    /\ result = [w \in Procs |-> Running]

\* One worker per GPU, any configuration of ConfigsOf, a few restore names.
Init ==
    /\ params \in UNION {ConfigsOf(FullConfig(GpuList(n), MaxEpochs)) : n \in 0..MaxGpus}
    /\ NoCheckParamsCall
    /\ comm_file \in {NoneV, SomeStr(CommPath)}
    /\ restoreArg \in {NoneV} \cup {SomeStr(r) : r \in RestoreSamples}
    /\ cuda \in BOOLEAN
    /\ \E env \in StartEnvs : StartWorkers(env)

\* One worker on the CPU, a complete configuration, every restore name.
InitSolo ==
    /\ params \in {FullConfig(<<>>, e) : e \in 1..MaxEpochs}
    /\ NoCheckParamsCall
    /\ comm_file = NoneV
    /\ restoreArg \in {NoneV} \cup {SomeStr(r) : r \in RestoreNames}
    /\ cuda = FALSE
    /\ StartWorkers(CHOOSE env \in StartEnvs : env["RANK"].isNone)

Next ==
    \/ \E w \in Procs : SetRank(w)
    \/ \E w \in Procs : ConfigureDevice(w)
    \/ \E w \in Procs : LoadData(w)
    \/ \E w \in Procs : BuildModel(w)
    \/ \E w \in Procs : LoadCheckpoint(w)
    \/ \E w \in Procs : ReportLoaded(w)
    \/ \E w \in Procs : ReportMissing(w)
    \/ \E w \in Procs : ParseEpoch(w)
    \/ \E w \in Procs : InstallCallbacks(w)
    \/ \E w \in Procs : CheckOptim(w)
    \/ \E w \in Procs : Fit(w)

Spec == Init /\ [][Next]_vars

SpecSolo == InitSolo /\ [][Next]_vars

-----------------------------------------------------------------------------
(* Specification of check_params alone.                                    *)

IdleWorkers ==
    /\ comm_file = NoneV
    /\ restoreArg = NoneV
    /\ cuda = FALSE
    /\ nprocs = 0
    /\ environ = <<>>
    /\ pc = <<>>
    /\ loc = <<>>
    /\ calls = <<>>
    /\ stdout = <<>>
    /\ result = <<>>

InitCP ==
    /\ params \in SmallMappings
    /\ param_list \in ParamLists
    /\ cpResult = [called |-> FALSE, exc |-> "none", msg |-> <<>>, before |-> params]
    /\ IdleWorkers

CheckParamsCall ==
    /\ ~cpResult.called
    /\ LET r == check_params(params, param_list)
       IN  cpResult' = [called |-> TRUE, exc |-> r.exc, msg |-> r.msg, before |-> params]
    /\ UNCHANGED <<params, param_list, workerVars>>

NextCP == CheckParamsCall

SpecCP == InitCP /\ [][NextCP]_vars

-----------------------------------------------------------------------------
(* Vocabulary of the properties, defined from the data and not from the    *)
(* operators above.                                                        *)

\* The key sequences that lead somewhere in node, found by walking the node.
RECURSIVE KeyPaths(_)
KeyPaths(node) ==
    {<<>>} \cup
    (IF node.kind = "dict"
     THEN UNION {{<<k>> \o rest : rest \in KeyPaths(node.items[k])} :
                    k \in DOMAIN node.items}
     ELSE {})

\* The pieces of s between its separators, by the separators' positions.
Pieces(s, sep) ==
    LET P == Positions(s, sep)
        cut(j) == IF j = 0 THEN 0
                  ELSE IF j = Cardinality(P) + 1 THEN Len(s) + 1
                  ELSE CHOOSE i \in P : Cardinality({o \in P : o < i}) = j - 1
    IN  [j \in 1..(Cardinality(P) + 1) |-> SubSeq(s, cut(j - 1) + 1, cut(j) - 1)]

\* The dotted path can be resolved by descending mapping key by key.
Resolves(mapping, path) == Pieces(path, ".") \in KeyPaths(mapping)

\* The key path a "not supplied" message names.
NamedIn(msg) == SubSeq(msg, 2, Len(msg) - 1)

EndsWith(s, suffix) ==
    /\ Len(s) >= Len(suffix)
    /\ SubSeq(s, Len(s) - Len(suffix) + 1, Len(s)) = suffix

\* The positions of worker w's calls of fn.
CallsOf(w, fn) == {i \in DOMAIN calls[w] : calls[w][i].fn = fn}
ChecksOf(w, section) ==
    {i \in CallsOf(w, "check_params") : calls[w][i].a = <<section>>}

Before(I, J) == \E i \in I : \A j \in J : i < j

-----------------------------------------------------------------------------
(* Properties.                                                             *)

\* C1: check_params raises ValueError exactly when some listed dotted path
\* cannot be resolved in params by descending key by key; otherwise it returns
\* without raising; params is left as it was; the error names the first
\* unresolved path in list order.
C1_CheckParamsRaisesIffUnresolved ==
    cpResult.called =>
        LET bad == {i \in DOMAIN param_list : ~Resolves(params, param_list[i])}
        IN  /\ (cpResult.exc = "ValueError") <=> (bad # {})
            /\ bad = {} => cpResult.exc = "none"
            /\ bad # {} => NamedIn(cpResult.msg) = param_list[Min(bad)]
            /\ params = cpResult.before

\* Two different unresolved paths, the first one stopped by a value that
\* cannot be indexed; the call raised.
C1_Witness ==
    /\ cpResult.called
    /\ cpResult.exc = "ValueError"
    /\ Len(param_list) = 2
    /\ param_list[1] # param_list[2]
    /\ ~Resolves(params, param_list[1])
    /\ ~Resolves(params, param_list[2])
    /\ Descend(params, Split(param_list[1], "."), 1) = "TypeError"

\* The schema keys that are absent from params.
AbsentKeys == {p \in SchemaPaths : ~Resolves(params, p)}

\* C2: whenever a schema key is absent from params, a finished train_worker
\* call has ended with a ValueError naming an absent key path, never with
\* another exception and never by returning.
C2_AbsentKeyEndsInValueError ==
    \A w \in Procs :
        (pc[w] = "done" /\ AbsentKeys # {}) =>
            /\ result[w].state = "raised"
            /\ result[w].exc = "ValueError"
            /\ NamedIn(result[w].msg) \in AbsentKeys

\* C3: a worker whose load raised FileNotFoundError stops there: it returns
\* without an exception, installs no callback, does not check the optim keys
\* and never calls fit_one_cycle.
C3_MissingCheckpointAbortsStartup ==
    \A w \in Procs :
        loc[w].loaded = "FileNotFoundError" =>
            /\ pc[w] \in {"missing", "done"}
            /\ pc[w] = "done" => result[w] = Returned
            /\ result[w].state # "raised"
            /\ loc[w].callbacks = <<>>
            /\ CallsOf(w, "SaveModelCallback") = {}
            /\ ChecksOf(w, "optim") = {}
            /\ CallsOf(w, "fit_one_cycle") = {}

\* A worker has returned after its load did not find the file.
C3_Witness ==
    \E w \in Procs :
        /\ loc[w].loaded = "FileNotFoundError"
        /\ pc[w] = "done"
        /\ result[w] = Returned
        /\ CallsOf(w, "load") # {}

LoadedLines == {i \in DOMAIN stdout : stdout[i].line[1] = "Loaded model "}
NotFoundLines ==
    {i \in DOMAIN stdout :
        stdout[i].line[Len(stdout[i].line)] = ".pth was not found!"}
AllDone == \A w \in Procs : pc[w] = "done"

\* C4: over all workers and in every interleaving the load's outcome is
\* reported once: only worker 0 prints, one 'Loaded model' line and nothing
\* else when every worker's load succeeded, one 'was not found' line and
\* nothing else when every worker's load failed to find the file.
C4_LoadReportedOnce ==
    /\ \A i \in DOMAIN stdout : stdout[i].by = 0
    /\ (AllDone /\ \A w \in Procs : loc[w].loaded = "ok") =>
            (Cardinality(LoadedLines) = 1 /\ Len(stdout) = 1)
    /\ (AllDone /\ \A w \in Procs : loc[w].loaded = "FileNotFoundError") =>
            (Cardinality(NotFoundLines) = 1 /\ Len(stdout) = 1)

\* Several workers all loaded the checkpoint and have finished; another
\* worker finished before worker 0.
C4_Witness ==
    /\ nprocs > 1
    /\ AllDone
    /\ \A w \in Procs : loc[w].loaded = "ok"
    /\ Cardinality(LoadedLines) = 1

GpuIds == GetItem(params, Key("gpu_ids"))

\* C5: with a GPU requested and no CUDA available no worker obtains a
\* Learner: build_learner ends in an error, nothing is loaded and
\* fit_one_cycle is not called.  With gpu_ids empty no device query is made,
\* no GPU error is raised and the device is the CPU.
C5_GpuRequestedButUnavailable ==
    GpuIds.exc = "none" =>
        \A w \in Procs :
            /\ (Len(GpuIds.val.elems) > 0 /\ ~cuda) =>
                    /\ ~loc[w].learn
                    /\ CallsOf(w, "Learner") = {}
                    /\ CallsOf(w, "load") = {}
                    /\ CallsOf(w, "fit_one_cycle") = {}
                    /\ pc[w] \in {"start", "device", "data", "model", "done"}
                    /\ pc[w] = "done" => result[w].state = "raised"
            /\ Len(GpuIds.val.elems) = 0 =>
                    /\ result[w].msg # GpuNotFoundMsg
                    /\ CallsOf(w, "get_device_name") = {}
                    /\ CallsOf(w, "cuda") = {}
                    /\ loc[w].device \in {<<>>, <<"cpu">>}
                    /\ loc[w].learn => loc[w].device = <<"cpu">>
                    /\ \A i \in CallsOf(w, "DataBunch") : calls[w][i].a = <<(<<"cpu">>)>>

\* A worker got as far as the availability check and was stopped by it.
C5_Witness ==
    \E w \in Procs :
        /\ GpuIds.exc = "none"
        /\ Len(GpuIds.val.elems) > 0
        /\ ~cuda
        /\ pc[w] = "done"
        /\ result[w] = Raised("ValueError", GpuNotFoundMsg)

\* The init method the claim expects for the comm file given.
ExpectedInitMethod ==
    IF comm_file.isNone THEN <<"file://", "None">> ELSE <<"file://">> \o comm_file.s

\* C6: rank, device and comm file are passed through.  A worker that is past
\* the device set-up has initialised the process group iff len(gpu_ids) > 1,
\* with backend arguments rank = pindex, world_size = len(gpu_ids) and
\* 'file://' + comm_file; its device is gpu_ids[pindex], or the CPU when
\* gpu_ids is empty; a built model is wrapped for distributed data
\* parallelism iff len(gpu_ids) > 1.  No two workers share a rank, and all
\* use the same world size and init method.
C6_RankDeviceCommFilePassedThrough ==
    GpuIds.exc = "none" =>
        LET gpus == GpuIds.val.elems
        IN  /\ \A w \in Procs :
                /\ Cardinality(CallsOf(w, "init_process_group")) <= 1
                /\ \A i \in CallsOf(w, "init_process_group") :
                        /\ Len(gpus) > 1
                        /\ calls[w][i].a[2] = Len(gpus)
                        /\ calls[w][i].a[3] = w
                        /\ calls[w][i].a[4] = ExpectedInitMethod
                /\ loc[w].world_size > 0 =>
                        /\ (CallsOf(w, "init_process_group") # {}) <=> (Len(gpus) > 1)
                        /\ loc[w].device =
                              IF Len(gpus) > 0 THEN <<"cuda", gpus[w + 1]>> ELSE <<"cpu">>
                        /\ \A i \in CallsOf(w, "set_device") :
                              calls[w][i].a = <<gpus[w + 1]>>
                /\ loc[w].learn =>
                        /\ (CallsOf(w, "DistributedDataParallel") # {}) <=> (Len(gpus) > 1)
                        /\ loc[w].ddp <=> (Len(gpus) > 1)
                        /\ \A i \in CallsOf(w, "DataBunch") :
                              calls[w][i].a = <<loc[w].device>>
            /\ \A w1, w2 \in Procs :
                 \A i \in CallsOf(w1, "init_process_group") :
                   \A j \in CallsOf(w2, "init_process_group") :
                        /\ calls[w1][i].a[2] = calls[w2][j].a[2]
                        /\ calls[w1][i].a[2] = nprocs
                        /\ calls[w1][i].a[4] = calls[w2][j].a[4]
                        /\ w1 # w2 => calls[w1][i].a[3] # calls[w2][j].a[3]

\* Two workers have joined the process group through a comm file and both
\* have a wrapped model.
C6_Witness ==
    /\ nprocs > 1
    /\ ~comm_file.isNone
    /\ \A w \in Procs :
        /\ CallsOf(w, "init_process_group") # {}
        /\ loc[w].learn
        /\ loc[w].ddp

\* restore without one trailing '.pth'.
WithoutExtension(name) ==
    IF EndsWith(name, PthExt) THEN SubSeq(name, 1, Len(name) - Len(PthExt)) ELSE name

\* C7 as stated: the name passed to learn.load is restore without its last
\* four characters when restore ends in '.pth' and restore itself otherwise,
\* and that name never ends in '.pth'.
C7_LoadNameNeverCarriesExtension ==
    \A w \in Procs :
        \A i \in CallsOf(w, "load") :
            /\ calls[w][i].a[1] = WithoutExtension(restoreArg.s)
            /\ ~EndsWith(calls[w][i].a[1], PthExt)

\* C7 as amended: the name passed to learn.load is restore without its last
\* four characters when restore ends in '.pth' and restore itself otherwise;
\* exactly one extension is removed, so the name still ends in '.pth' exactly
\* when restore ends in '.pth.pth'.
C7_LoadNameLosesOneExtension ==
    \A w \in Procs :
        \A i \in CallsOf(w, "load") :
            /\ calls[w][i].a[1] = WithoutExtension(restoreArg.s)
            /\ EndsWith(calls[w][i].a[1], PthExt)
                   <=> EndsWith(restoreArg.s, PthExt \o PthExt)

\* load was called for a restore name that ends in '.pth.pth'.
C7_Witness ==
    \E w \in Procs :
        /\ CallsOf(w, "load") # {}
        /\ ~restoreArg.isNone
        /\ EndsWith(restoreArg.s, PthExt \o PthExt)
        /\ Len(restoreArg.s) > 2 * Len(PthExt)

\* The start epoch the claim derives from the name that was loaded.
ExpectedStartEpoch(loadedName) ==
    LET comps == Pieces(loadedName, "/")
        fields == Pieces(comps[Len(comps)], "_")
    IN  IF Len(fields) >= 2 /\ ParseInt(fields[2]).ok
        THEN SomeInt(ParseInt(fields[2]).n + 1)
        ELSE NoneV

ConfiguredEpochs == params.items[Key("optim")].items[Key("epochs")].num

\* C8: fit_one_cycle gets optim.epochs both as the epoch count and as
\* tot_epochs, and as start epoch None when restore is None, k + 1 when the
\* last '/'-component of the loaded name has a second '_'-field that parses
\* as the integer k, and None in every other case.
C8_StartEpochFromCheckpointName ==
    \A w \in Procs :
        \A i \in CallsOf(w, "fit_one_cycle") :
            /\ calls[w][i].a[1] = ConfiguredEpochs
            /\ calls[w][i].a[3] = ConfiguredEpochs
            /\ calls[w][i].a[4] =
                  IF restoreArg.isNone
                  THEN NoneV
                  ELSE ExpectedStartEpoch(WithoutExtension(restoreArg.s))

\* Training started at epoch 2 from a checkpoint in a subdirectory, named
\* with its extension.
C8_Witness ==
    \E w \in Procs :
        \E i \in CallsOf(w, "fit_one_cycle") :
            /\ calls[w][i].a[4] = SomeInt(2)
            /\ ~restoreArg.isNone
            /\ EndsWith(restoreArg.s, PthExt)
            /\ Positions(restoreArg.s, "/") # {}

C10_RankSetOnlyWhenUnset ==
    \A w \in Procs :
        LET before == loc[w].env0
            after == environ[w]
            wasSet == ~before["RANK"].isNone /\ before["RANK"].s # <<>>
        IN  /\ \A v \in EnvNames \ {"RANK"} : after[v] = before[v]
            /\ pc[w] = "start" => after = before
            /\ wasSet => after["RANK"] = before["RANK"]
            /\ (pc[w] # "start" /\ ~wasSet) =>
                    /\ ~after["RANK"].isNone
                    /\ after["RANK"].s # <<>>
                    /\ \A i \in DOMAIN after["RANK"].s : after["RANK"].s[i] \in DigitSet
                    /\ DecVal(after["RANK"].s) = w
                    /\ Len(after["RANK"].s) > 1 => after["RANK"].s[1] # "0"

\* Worker 1 entered with RANK set to the empty string and now has RANK '1'.
C10_Witness ==
    /\ nprocs > 1
    /\ pc[1] = "device"
    /\ loc[1].env0["RANK"] = SomeStr(<<>>)
    /\ environ[1]["RANK"] = SomeStr(<<"1">>)

====
